---- MODULE Spec2Model ----
(***************************************************************************)
(* Crawl frontier and content-classification engine of the financial data  *)
(* extractor (src/app.py, class EnhancedFinancialDataExtractor).            *)
(*                                                                         *)
(* Strings are sequences of tokens.  A token is a maximal piece of text    *)
(* that no keyword of the program cuts through: "https://x.gov/tax?q" is   *)
(* <<"https://", "x", ".", "gov", "/", "tax", "?", "q">>.  Python's        *)
(* `needle in hay` is containment of a contiguous run of tokens.           *)
(***************************************************************************)
EXTENDS Integers, Sequences, FiniteSets, TLC

VARIABLES
    start_url,        \* argument of recursive_extract
    max_depth,        \* argument of recursive_extract
    max_pages,        \* argument of recursive_extract
    domain,           \* self.domain
    urls_to_visit,    \* the deque of <<url, depth>>
    visited_urls,     \* self.visited_urls
    financial_pages,  \* self.financial_pages
    failed_pages,     \* self.failed_pages
    skipped_pages,    \* self.skipped_pages
    pages_processed,  \* local counter of recursive_extract
    pc,               \* position of the coroutine
    current,          \* <<current_url, depth>> of the iteration in progress
    attempt,          \* loop variable of the retry loop in progress
    delays,           \* durations slept between the attempts of the fetch in progress
    page_data,        \* result of scrape_page / argument of extract_links
    new_links,        \* result of extract_links
    fetched,          \* history: URLs passed to scrape_page, in order
    dequeued,         \* history: entries returned by popleft, in order
    classified,       \* <<has_financial, patterns>> of the iteration in progress
    filepath,         \* result of save_financial_content in the iteration in progress
    files,            \* the paths written under the output folder
    outcomes,         \* history: what each attempt of the fetch in progress met
    extraction,       \* history: what PyPDF2 did with the PDF of the fetch in progress
    other             \* the locals of the other crawl on this extractor, if any

vars == <<start_url, max_depth, max_pages, domain, urls_to_visit, visited_urls,
          financial_pages, failed_pages, skipped_pages, pages_processed, pc,
          current, attempt, delays, page_data, new_links, fetched, dequeued,
          classified, filepath, files, outcomes, extraction, other>>

----------------------------------------------------------------------------
(* Bounds of the model *)

MaxDepth == 2
MaxPages == 3
MaxPageLinks == 2
MaxMixedLinks == 3
MaxCapLinks == 6
MaxPdfPages == 2
MaxPathLen == 4
MaxTextLen == 4

----------------------------------------------------------------------------
(* Generic string helpers (Python str methods on token sequences) *)

Min(S) == CHOOSE x \in S : \A y \in S : x <= y

\* name = value; Body(name): the value is computed once, as an assignment
\* computes it, however often Body reads the name
Bind(value, Body(_)) == CHOOSE result \in {Body(name) : name \in {value}} : TRUE

Lower(t) ==
    CASE t = "About" -> "about"
      [] t = "PDF"   -> "pdf"
      [] t = "Tax"   -> "tax"
      [] t = "Fee"   -> "fee"
      [] OTHER       -> t

lower(s) == [i \in 1..Len(s) |-> Lower(s[i])]

In(needle, hay) ==
    \E i \in 1..(Len(hay) - Len(needle) + 1) :
        SubSeq(hay, i, i + Len(needle) - 1) = needle

\* any(needle in hay for needle in needles), all needles being n tokens long
AnyIn(needles, n, hay) ==
    \E i \in 1..(Len(hay) - n + 1) : SubSeq(hay, i, i + n - 1) \in needles

startswith(s, p) == Len(s) >= Len(p) /\ SubSeq(s, 1, Len(p)) = p

endswith(s, p) == Len(s) >= Len(p) /\ SubSeq(s, Len(s) - Len(p) + 1, Len(s)) = p

\* s.split(c)[0] for any c of stops: the part before the first stop token
before(s, stops) ==
    LET idx == {i \in 1..Len(s) : s[i] \in stops}
    IN  IF idx = {} THEN s ELSE SubSeq(s, 1, Min(idx) - 1)

replace(s, a, b) == [i \in 1..Len(s) |-> IF s[i] = a THEN b ELSE s[i]]

strip(s, c) ==
    LET keep == {i \in 1..Len(s) : s[i] # c}
    IN  IF keep = {} THEN <<>>
        ELSE SubSeq(s, Min(keep), CHOOSE j \in keep : \A k \in keep : k <= j)

HttpSchemes == {"https://", "http://"}

\* urlparse(url).netloc
netloc(url) ==
    IF url # <<>> /\ url[1] \in HttpSchemes
    THEN before(Tail(url), {"/", "?", "#"})
    ELSE <<>>

\* urlparse(url).path
urlpath(url) ==
    IF url # <<>> /\ url[1] \in HttpSchemes
    THEN LET rest == Tail(url)
             host == before(rest, {"/", "?", "#"})
         IN  before(SubSeq(rest, Len(host) + 1, Len(rest)), {"?", "#"})
    ELSE before(url, {"?", "#"})

----------------------------------------------------------------------------
(* Pattern registry *)

SKIP_PATTERNS ==
    { <<"about">>, <<"contact">>, <<"privacy">>, <<"terms">>, <<"sitemap">>,
      <<"search">>, <<"accessibility">>, <<"translate">>, <<"home">>,
      <<"index">>, <<"faq">>, <<"help">>, <<"support">>, <<"blog">>,
      <<"careers">>, <<"jobs">>, <<"staff">>, <<"directory">>, <<"media">>,
      <<"press">>, <<"calendar">>, <<"events">>, <<"gallery">>, <<"photo">>,
      <<"video">>, <<"social">>, <<"facebook">>, <<"twitter">>,
      <<"instagram">>, <<"linkedin">>, <<"youtube">> }

FINANCIAL_LINK_KEYWORDS ==
    { <<"tax">>, <<"fee">>, <<"rate">>, <<"cost">>, <<"price">>, <<"budget">>,
      <<"financial">>, <<"finance">>, <<"revenue">>, <<"assessment">>,
      <<"penalty">>, <<"payment">>, <<"billing">>, <<"invoice">>,
      <<"permit">>, <<"license">>, <<"registration">>, <<"business">>,
      <<"property">>, <<"sales">>, <<"income">>, <<"audit">>, <<"treasury">>,
      <<"accounting">>, <<"fiscal">>, <<"economic">> }

\* The regular expressions, by their position in the list
FINANCIAL_KEYWORDS == 1..31

\* the phrases the texts of the site are made of
Phrases ==
    { "3.5%", "$500", "$5 million", "rate of 3.5%", "license fee $500",
      "Tax Assessment", "fee schedule", "due annually", "--- PAGE 1 ---",
      "--- PAGE 2 ---", "--- PAGE 3 ---",
      "PDF Document Information", "PDF Processing Error", "Document URL" }

\* re.findall(pattern, phrase, re.IGNORECASE) on one phrase of a text: the
\* match of the pattern in the phrase, "" when it has none
MatchOf(pattern, phrase) ==
    CASE phrase = "3.5%" /\ pattern = 1 -> "3.5%"
      [] phrase = "$500" /\ pattern = 7 -> "$500"
      [] phrase = "$5 million" /\ pattern = 7 -> "$5"
      [] phrase = "$5 million" /\ pattern = 8 -> "$5 million"
      [] phrase = "rate of 3.5%" /\ pattern = 1 -> "3.5%"
      [] phrase = "rate of 3.5%" /\ pattern = 3 -> "rate of 3"
      [] phrase = "license fee $500" /\ pattern = 7 -> "$500"
      [] phrase = "license fee $500" /\ pattern = 27 -> "license fee $500"
      [] phrase = "Tax Assessment" /\ pattern = 22 -> "Tax Assessment"
      [] phrase = "Tax Assessment" /\ pattern = 31 -> "Tax Assessment"
      [] phrase = "fee schedule" /\ pattern = 23 -> "fee schedule"
      [] OTHER -> ""

MatchTable ==
    [pattern \in FINANCIAL_KEYWORDS |-> [phrase \in Phrases |-> MatchOf(pattern, phrase)]]

Match(pattern, phrase) == MatchTable[pattern][phrase]

\* re.findall(pattern, text, re.IGNORECASE)
findall(pattern, text) ==
    LET hits == SelectSeq(text, LAMBDA ph : Match(pattern, ph) # "")
    IN  [i \in 1..Len(hits) |-> Match(pattern, hits[i])]

\* s[:n]
Take(s, n) == SubSeq(s, 1, IF Len(s) < n THEN Len(s) ELSE n)

----------------------------------------------------------------------------
(* URL classifier *)

\* f'/{pattern}' for the skip patterns
SlashSkipPatterns == {<<"/">> \o pattern : pattern \in SKIP_PATTERNS}

is_generic_page(url) ==
    \/ AnyIn(SKIP_PATTERNS, 1, lower(url))
    \/ AnyIn(SlashSkipPatterns, 2, lower(urlpath(url)))

is_pdf_url(url) ==
    endswith(lower(url), <<".", "pdf">>) \/ In(<<"pdf">>, lower(url))

doc_extensions ==
    { <<".", "pdf">>, <<".", "doc">>, <<".", "docx">>, <<".", "xls">>,
      <<".", "xlsx">>, <<".", "ppt">>, <<".", "pptx">>, <<".", "txt">> }

is_document_url(url) == AnyIn(doc_extensions, 2, lower(url))

----------------------------------------------------------------------------
(* Content classifier *)

per_pattern_cap == 3

\* every match of one pattern
AllMatches(pattern, text) == findall(pattern, text)

\* matches[:3] of one pattern
PatternContribution(pattern, text) == Take(findall(pattern, text), per_pattern_cap)

RECURSIVE found_patterns(_, _)
\* found_patterns after the patterns 1..k have been scanned
found_patterns(k, text) ==
    IF k = 0 THEN <<>>
    ELSE found_patterns(k - 1, text) \o PatternContribution(k, text)

\* <<has_financial, patterns>>
contains_financial_data(text) ==
    IF text = <<>> THEN <<FALSE, <<>>>>
    ELSE Bind(found_patterns(31, text), LAMBDA found : <<Len(found) > 0, found>>)

----------------------------------------------------------------------------
(* Persister: file naming *)

UnsafeChars == {"<", ">", ":", "\"", "/", "\\", "|", "?", "*", "%"}

\* re.sub(r'[<>:"/\\|?*%]', '_', s)
sub_unsafe(s) == [i \in 1..Len(s) |-> IF s[i] \in UnsafeChars THEN "_" ELSE s[i]]

\* the string left with its runs of '_'
sub_nothing(s, k) == SubSeq(s, 1, k)

RECURSIVE sub_runs(_, _)
\* re.sub(r'_+', '_', s), on the first k tokens of s
sub_runs(s, k) ==
    IF k = 0 THEN <<>>
    ELSE IF s[k] = "_" /\ k > 1 /\ s[k - 1] = "_" THEN sub_runs(s, k - 1)
    ELSE Append(sub_runs(s, k - 1), s[k])

\* path = parsed.path.strip('/').replace('/', '_');
\* if not path or path == '_': path = parsed.netloc.replace('.', '_')
url_name(url) ==
    Bind(replace(strip(urlpath(url), "/"), "/", "_"), LAMBDA path :
         IF path = <<>> \/ path = <<"_">>
         THEN replace(netloc(url), ".", "_")
         ELSE path)

\* the two re.sub of get_safe_filename, then .strip('_')
safe_chars(path) ==
    Bind(sub_unsafe(path), LAMBDA subbed :
    Bind(sub_runs(subbed, Len(subbed)), LAMBDA collapsed :
         strip(collapsed, "_")))

get_safe_filename(url) ==
    Bind(url_name(url), LAMBDA path :
    Bind(safe_chars(path), LAMBDA safe :
         (IF safe = <<>> THEN <<"page_", "hash">> ELSE safe) \o <<".", "txt">>))

\* the path save_financial_content writes to
save_path(url, type) ==
    <<IF type \in {"PDF", "DOCUMENT"} THEN "documents" ELSE "output",
      get_safe_filename(url)>>

----------------------------------------------------------------------------
(* Link extractor and prioritizer *)

max_other_links == 5

NonWebPrefixes == {"#", "mailto:", "tel:"}

\* the `continue` branches before the URL is cleaned
link_dropped(link, dom) ==
    \/ link = <<>>
    \/ /\ link[1] # "/"
       /\ \/ link[1] \in HttpSchemes /\ ~In(dom, link)
          \/ link[1] \notin HttpSchemes /\ link[1] \in NonWebPrefixes

\* Convert to absolute URL
full_url(link, dom) ==
    IF link[1] = "/" THEN <<"https://">> \o dom \o link
    ELSE IF link[1] \in HttpSchemes THEN link
    ELSE <<"https://">> \o dom \o <<"/">> \o link

\* full_url.split('#')[0].split('?')[0]
clean_url(full) == before(before(full, {"#"}), {"?"})

\* the list a surviving link is appended to
link_tier(url, link_text) ==
    IF is_document_url(url) THEN "document"
    ELSE IF \/ AnyIn(FINANCIAL_LINK_KEYWORDS, 1, lower(url))
            \/ AnyIn(FINANCIAL_LINK_KEYWORDS, 1, lower(link_text))
         THEN "financial"
         ELSE "other"

\* the test that lets generic pages through
link_survives_generic(link_data, visited, dom) ==
    /\ ~link_dropped(link_data.url, dom)
    /\ clean_url(full_url(link_data.url, dom)) \notin visited

\* does the link reach the categorisation, given the visited set
link_survives(link_data, visited, dom) ==
    /\ ~link_dropped(link_data.url, dom)
    /\ \E clean \in {clean_url(full_url(link_data.url, dom))} :
           clean \notin visited /\ ~is_generic_page(clean)

RECURSIVE categorize(_, _, _, _)
\* the three lists after the first k links of the page have been looked at
categorize(links, k, visited, dom) ==
    IF k = 0
    THEN [document_links |-> <<>>, financial_links |-> <<>>, other_links |-> <<>>]
    ELSE Bind(categorize(links, k - 1, visited, dom), LAMBDA acc :
         IF ~link_survives(links[k], visited, dom) THEN acc
         ELSE Bind(clean_url(full_url(links[k].url, dom)), LAMBDA clean :
              Bind(link_tier(clean, links[k].text), LAMBDA tier :
                   IF tier = "document"
                   THEN [acc EXCEPT !.document_links = Append(@, clean)]
                   ELSE IF tier = "financial"
                   THEN [acc EXCEPT !.financial_links = Append(@, clean)]
                   ELSE [acc EXCEPT !.other_links = Append(@, clean)])))

\* financial links ahead of the document links
selected_links_swapped(lists) ==
    lists.financial_links \o lists.document_links
        \o Take(lists.other_links, max_other_links)

\* the three lists joined without the limit on the others
selected_links_uncapped(lists) ==
    lists.document_links \o lists.financial_links \o lists.other_links

\* document links, then financial links, then others (limited)
selected_links(lists) ==
    lists.document_links \o lists.financial_links
        \o Take(lists.other_links, max_other_links)

RECURSIVE unique_links(_, _)
\* Remove duplicates while preserving order, on the first k selected links
unique_links(selected, k) ==
    IF k = 0 THEN <<>>
    ELSE Bind(unique_links(selected, k - 1), LAMBDA unique :
              IF \E i \in 1..Len(unique) : unique[i] = selected[k]
              THEN unique
              ELSE Append(unique, selected[k]))

extract_links(page, visited, dom) ==
    Bind(categorize(page.links, Len(page.links), visited, dom), LAMBDA lists :
    Bind(selected_links(lists), LAMBDA selected :
         unique_links(selected, Len(selected))))

----------------------------------------------------------------------------
(* The inputs of a run: start URLs, the pages of the site, caller's budgets *)

BoundedSeq(S, n) == UNION {[1..k -> S] : k \in 0..n}

Dom == <<"x", ".", "gov">>

U(path) == <<"https://">> \o Dom \o path

StartUrls ==
    { U(<<"/">>), U(<<"/", "about", "-us">>), U(<<"/", "p1", "?", "q">>) }

Href(url) == [url |-> url, text |-> <<>>]

\* the links of the site's pages, in the order the pages list them
SiteLinks ==
    << Href(<<"/", "tax">>), Href(<<"/", "p1">>),
       Href(<<"/", "fee", ".", "pdf">>), Href(<<"/", "data", ".", "xls">>),
       Href(<<"/", "About">>) >>

\* the elements of s at the positions I, in the order of s
Pick(s, I) ==
    [k \in 1..Cardinality(I) |->
        s[CHOOSE i \in I : Cardinality({j \in I : j < i}) = k - 1]]

\* the link lists a rendered page of the site can carry
PageLinks ==
    { Pick(SiteLinks, I) :
        I \in {J \in SUBSET (1..Len(SiteLinks)) : Cardinality(J) <= MaxPageLinks} }

TextNone == <<"due annually">>
TextSome == <<"license fee $500", "due annually", "rate of 3.5%">>
TextMany == <<"rate of 3.5%", "license fee $500", "rate of 3.5%", "license fee $500",
              "rate of 3.5%", "license fee $500", "rate of 3.5%", "license fee $500">>

\* the texts the rendered pages and the other documents of the site carry
PageTexts == {TextNone, TextMany}
\* the text of a page of a PDF
PdfPageText == TextSome
DocTexts == {TextNone}

NoPage ==
    [url |-> <<>>, title |-> "", content |-> <<>>, links |-> <<>>,
     status |-> "NONE", type |-> "NONE", error |-> ""]

Success(url, title, content, links, type) ==
    [url |-> url, title |-> title, content |-> content, links |-> links,
     status |-> "SUCCESS", type |-> type, error |-> ""]

Failed(url, error, type) ==
    [url |-> url, title |-> "", content |-> <<>>, links |-> <<>>,
     status |-> "FAILED", type |-> type, error |-> error]

----------------------------------------------------------------------------
(* Orchestrator: recursive_extract *)

\* the locals has_financial, patterns and filepath before they are assigned
Unclassified == <<FALSE, <<>>>>
Unset == <<>>

\* the null path save_financial_content returns when the write fails
None == <<"None">>

\* no other crawl was started on the extractor
NoTask == [pc |-> "none"]

FreshExtractor ==
    /\ domain = netloc(start_url)
    /\ visited_urls = {}
    /\ financial_pages = <<>>
    /\ failed_pages = <<>>
    /\ skipped_pages = <<>>

RunStart ==
    /\ urls_to_visit = <<<<start_url, 0>>>>
    /\ pages_processed = 0
    /\ pc = "loop"
    /\ current = <<<<>>, 0>>
    /\ attempt = 0
    /\ delays = <<>>
    /\ page_data = NoPage
    /\ new_links = <<>>
    /\ fetched = <<>>
    /\ dequeued = <<>>
    /\ classified = Unclassified
    /\ filepath = Unset
    /\ files = {}
    /\ outcomes = <<>>
    /\ extraction = <<>>
    /\ other = NoTask

\* A run on a fresh extractor.  The budgets are any integers: the tool
\* wrapper passes int(...) of the caller's text (src/app_model.py), so a
\* budget may be negative
Init ==
    /\ start_url \in StartUrls
    /\ max_depth \in (-1)..MaxDepth
    /\ max_pages \in (-1)..MaxPages
    /\ FreshExtractor
    /\ RunStart

\* the loop test that leaves the loop one page early
loop_condition_early(queue, processed, page_limit) ==
    queue # <<>> /\ processed + 1 < page_limit

\* while urls_to_visit and pages_processed < max_pages
loop_condition(queue, processed, page_limit) ==
    queue # <<>> /\ processed < page_limit

\* the discard test that looks at the depth alone
discarded_by_depth(url, depth, visited, depth_limit) == depth > depth_limit

\* if current_url in self.visited_urls or depth > max_depth: continue
discarded(url, depth, visited, depth_limit) ==
    url \in visited \/ depth > depth_limit

\* the depth test with <=
expands_inclusive(depth, depth_limit) == depth <= depth_limit

\* if depth < max_depth
expands(depth, depth_limit) == depth < depth_limit

\* the enqueue test without its look at the queue
is_unvisited(link, queue, visited) == link \notin visited

\* link not in self.visited_urls and not any(url == link for url, d in urls_to_visit)
is_new(link, queue, visited) ==
    link \notin visited /\ ~\E i \in 1..Len(queue) : queue[i][1] = link

RECURSIVE add_links_front(_, _, _, _, _)
\* the new links put at the head of the queue (appendleft)
add_links_front(queue, links, k, depth, visited) ==
    IF k = 0 THEN queue
    ELSE Bind(add_links_front(queue, links, k - 1, depth, visited), LAMBDA q :
              IF is_new(links[k], q, visited)
              THEN <<<<links[k], depth + 1>>>> \o q
              ELSE q)

RECURSIVE add_links_same_depth(_, _, _, _, _)
\* the new links queued at the depth of the page they were found on
add_links_same_depth(queue, links, k, depth, visited) ==
    IF k = 0 THEN queue
    ELSE Bind(add_links_same_depth(queue, links, k - 1, depth, visited), LAMBDA q :
              IF is_new(links[k], q, visited)
              THEN Append(q, <<links[k], depth>>)
              ELSE q)

RECURSIVE add_new_links(_, _, _, _, _)
\* urls_to_visit after the first k links have been offered to it
add_new_links(queue, links, k, depth, visited) ==
    IF k = 0 THEN queue
    ELSE Bind(add_new_links(queue, links, k - 1, depth, visited), LAMBDA q :
              IF is_new(links[k], q, visited)
              THEN Append(q, <<links[k], depth + 1>>)
              ELSE q)

\* the record with the whole pattern list
untruncated_record(url, page, path, patterns, depth) ==
    [url |-> url, title |-> page.title, filepath |-> path,
     patterns |-> patterns, depth |-> depth, type |-> page.type]

\* the record appended to self.financial_pages
financial_record(url, page, path, patterns, depth) ==
    [url |-> url, title |-> page.title, filepath |-> path,
     patterns |-> Take(patterns, 10), depth |-> depth, type |-> page.type]

\* the branches without the generic-page test
branch_without_skip(url, depth, visited, depth_limit) ==
    IF discarded(url, depth, visited, depth_limit) THEN "continue" ELSE "scrape"

\* the branch one iteration takes for the entry it pops
dequeue_branch(url, depth, visited, depth_limit) ==
    IF discarded(url, depth, visited, depth_limit) THEN "continue"
    ELSE IF is_generic_page(url) THEN "skip"
    ELSE "scrape"

\* the visited set left as it is
mark_nothing(visited, url) == visited

\* self.visited_urls.add(current_url)
mark_visited(visited, url) == visited \cup {url}

\* the counter left as it is
count_nothing(processed) == processed

\* the counter raised by two for one page
count_twice(processed) == processed + 2

\* pages_processed += 1
count_page(processed) == processed + 1

\* One iteration from the loop test to its first suspension point: popleft,
\* then `continue` (entry dropped, or generic page skipped) or the call of
\* scrape_page
Dequeue ==
    /\ pc = "loop"
    /\ loop_condition(urls_to_visit, pages_processed, max_pages)
    /\ LET entry  == Head(urls_to_visit)
           branch == dequeue_branch(entry[1], entry[2], visited_urls, max_depth)
       IN  /\ urls_to_visit' = Tail(urls_to_visit)
           /\ dequeued' = Append(dequeued, entry)
           /\ skipped_pages' =
                  IF branch = "skip" THEN Append(skipped_pages, entry[1])
                  ELSE skipped_pages
           /\ IF branch = "scrape"
              THEN /\ visited_urls' = mark_visited(visited_urls, entry[1])
                   /\ pages_processed' = count_page(pages_processed)
                   /\ current' = entry
                   /\ fetched' = Append(fetched, entry[1])
                   /\ pc' = "scrape"
              ELSE UNCHANGED <<visited_urls, pages_processed, current, fetched, pc>>
    /\ UNCHANGED <<other, start_url, max_depth, max_pages, domain, financial_pages,
                   failed_pages, attempt, delays, page_data, new_links,
                   classified, filepath, files, outcomes, extraction>>

\* the loop condition is false: print_summary and return
ExitLoop ==
    /\ pc = "loop"
    /\ ~loop_condition(urls_to_visit, pages_processed, max_pages)
    /\ pc' = "done"
    /\ UNCHANGED <<other, start_url, max_depth, max_pages, domain, urls_to_visit,
                   visited_urls, financial_pages, failed_pages, skipped_pages,
                   pages_processed, current, attempt, delays, page_data,
                   new_links, fetched, dequeued, classified, filepath, files,
                   outcomes, extraction>>

----------------------------------------------------------------------------
(* Fetch dispatcher: scrape_page and the two download paths *)

web_max_retries == 2
pdf_max_retries == 3
web_retry_delay == 3

RECURSIVE Pow2(_)
Pow2(n) == IF n = 0 THEN 1 ELSE 2 * Pow2(n - 1)

\* the same delay before every attempt
fixed_delay(n) == 1

\* await asyncio.sleep(2 ** attempt)
backoff_delay(n) == Pow2(n)

\* the branches told apart by the .pdf suffix alone
route_by_suffix(url) ==
    IF endswith(lower(url), <<".", "pdf">>) THEN "PDF" ELSE "WEBPAGE"

\* the branch of scrape_page a URL takes
route(url) ==
    IF is_document_url(url)
    THEN IF endswith(lower(url), <<".", "pdf">>) THEN "PDF" ELSE "DOCUMENT"
    ELSE "WEBPAGE"

\* the variables a step of scrape_page leaves alone
ScrapeFrame ==
    UNCHANGED <<other, start_url, max_depth, max_pages, domain, urls_to_visit,
                visited_urls, financial_pages, failed_pages, skipped_pages,
                pages_processed, current, new_links, fetched, dequeued,
                classified, filepath, files>>

\* the attempt in progress met outcome
Met(outcome) == outcomes' = Append(outcomes, outcome)

Return(result) ==
    /\ page_data' = result
    /\ pc' = "process"
    /\ UNCHANGED <<attempt, delays>>

\* the test that lets one attempt more through
after_last_attempt(n, max_retries) == n = max_retries

\* if attempt == max_retries - 1
last_attempt(n, max_retries) == n = max_retries - 1

\* an attempt failed: fail for good on the last one, else sleep and go on
RetryOrFail(max_retries, delay, error, type) ==
    IF last_attempt(attempt, max_retries)
    THEN Return(Failed(current[1], error, type))
    ELSE /\ delays' = Append(delays, delay)
         /\ pc' = "backoff"
         /\ UNCHANGED <<attempt, page_data>>

\* crawler.arun returns a result with markdown
WebAttemptOk ==
    /\ pc = "scrape"
    /\ route(current[1]) = "WEBPAGE"
    /\ Met("result")
    /\ \E content \in PageTexts, links \in PageLinks :
           Return(Success(current[1], "Page", content, links, "WEBPAGE"))
    /\ UNCHANGED extraction
    /\ ScrapeFrame

\* crawler.arun returns nothing, or a result without markdown
WebAttemptEmpty ==
    /\ pc = "scrape"
    /\ route(current[1]) = "WEBPAGE"
    /\ Met("empty")
    /\ Return(Failed(current[1], "No content returned", "WEBPAGE"))
    /\ UNCHANGED extraction
    /\ ScrapeFrame

\* a render failure followed by the backoff of the PDF path
WebAttemptErrorBackoff ==
    /\ pc = "scrape"
    /\ route(current[1]) = "WEBPAGE"
    /\ Met("RenderError")
    /\ RetryOrFail(web_max_retries, backoff_delay(attempt), "Max retries exceeded", "WEBPAGE")
    /\ UNCHANGED extraction
    /\ ScrapeFrame

\* except Exception as retry_error: fail on the last attempt, else sleep(3)
WebAttemptError ==
    /\ pc = "scrape"
    /\ route(current[1]) = "WEBPAGE"
    /\ Met("RenderError")
    /\ RetryOrFail(web_max_retries, web_retry_delay, "Max retries exceeded", "WEBPAGE")
    /\ UNCHANGED extraction
    /\ ScrapeFrame

\* the content-type headers a server answers a download with
ContentTypes == { <<"application/", "pdf">>, <<"text/", "html">> }

\* if 'pdf' not in content_type and not url.lower().endswith('.pdf')
not_a_pdf(content_type, url) ==
    ~In(<<"pdf">>, lower(content_type)) /\ ~endswith(lower(url), <<".", "pdf">>)

\* what PyPDF2 does with a file of n pages at most: PdfReader raises, or it
\* gives the pages, and extract_text of each page gives text, gives nothing,
\* or raises
PdfFiles(n) ==
    { <<"PdfReader raises">> }
        \cup { <<"PdfReader">> \o pages :
                  pages \in BoundedSeq({"text", "no text", "raises"}, n) }

\* the file a server holds at a URL: the fee schedule of the site has one
\* page, any other PDF has MaxPdfPages pages at most
ReaderBehaviours(url) ==
    IF url = U(<<"/", "fee", ".", "pdf">>) THEN PdfFiles(1) ELSE PdfFiles(MaxPdfPages)

\* f"\n--- PAGE {page_num + 1} ---\n"
PageHeader(n) ==
    CASE n = 1 -> "--- PAGE 1 ---"
      [] n = 2 -> "--- PAGE 2 ---"
      [] OTHER -> "--- PAGE 3 ---"

RECURSIVE pdf_text(_, _)
\* pdf_text after the first k pages have been read
pdf_text(pages, k) ==
    IF k = 0 THEN <<>>
    ELSE pdf_text(pages, k - 1)
             \o (IF pages[k] = "text" THEN <<PageHeader(k)>> \o PdfPageText ELSE <<>>)

\* an exception of PyPDF2 surfacing as a failed fetch
extracted_or_failed(url, reader) ==
    IF \E k \in 1..Len(reader) : reader[k] \in {"PdfReader raises", "raises"}
    THEN Failed(url, "PDF Processing Error", "PDF")
    ELSE Success(url, "PDF Document", pdf_text(Tail(reader), Len(reader) - 1), <<>>, "PDF")

\* the result of download_and_process_pdf once the file is downloaded
extracted(url, reader) ==
    IF reader[1] = "PdfReader raises"
    THEN Success(url, "PDF Document (Processing Error)",
                 <<"PDF Processing Error">>, <<>>, "PDF")
    ELSE Bind(pdf_text(Tail(reader), Len(reader) - 1), LAMBDA text :
              IF text # <<>>
              THEN Success(url, "PDF Document", text, <<>>, "PDF")
              ELSE Success(url, "PDF Document (No Text)",
                           <<"PDF Document Information">>, <<>>, "PDF"))

\* the response arrives: the content type is tested, the file is downloaded
\* and PyPDF2 reads it
PdfAttemptOk ==
    /\ pc = "scrape"
    /\ route(current[1]) = "PDF"
    /\ \E content_type \in ContentTypes :
           /\ Met(content_type[1] \o content_type[2])
           /\ IF not_a_pdf(content_type, current[1])
              THEN /\ Return(Failed(current[1], "Not a valid PDF document", "PDF"))
                   /\ UNCHANGED extraction
              ELSE \E reader \in ReaderBehaviours(current[1]) :
                       /\ extraction' = reader
                       /\ Return(extracted(current[1], reader))
    /\ ScrapeFrame

\* the error of the result when the last attempt met kind
transient_error(kind) ==
    IF kind = "Timeout" THEN "Timeout after multiple attempts" ELSE "Connection failed"

\* requests.exceptions.Timeout or ConnectionError
PdfAttemptTransient ==
    /\ pc = "scrape"
    /\ route(current[1]) = "PDF"
    /\ \E kind \in {"Timeout", "ConnectionError"} :
           /\ Met(kind)
           /\ RetryOrFail(pdf_max_retries, backoff_delay(attempt),
                          transient_error(kind), "PDF")
    /\ UNCHANGED extraction
    /\ ScrapeFrame

\* an HTTP error handled as the timeouts are: backoff and one more attempt
PdfAttemptErrorRetried ==
    /\ pc = "scrape"
    /\ route(current[1]) = "PDF"
    /\ Met("HTTPError")
    /\ RetryOrFail(pdf_max_retries, backoff_delay(attempt), "HTTPError", "PDF")
    /\ UNCHANGED extraction
    /\ ScrapeFrame

\* any other exception of the download, e.g. raise_for_status
PdfAttemptError ==
    /\ pc = "scrape"
    /\ route(current[1]) = "PDF"
    /\ Met("HTTPError")
    /\ Return(Failed(current[1], "HTTPError", "PDF"))
    /\ UNCHANGED extraction
    /\ ScrapeFrame

\* the sleep before the next attempt is over
Backoff ==
    /\ pc = "backoff"
    /\ attempt' = attempt + 1
    /\ pc' = "scrape"
    /\ UNCHANGED <<delays, page_data, outcomes, extraction>>
    /\ ScrapeFrame

\* download_and_process_document: one requests.get
DocAttemptOk ==
    /\ pc = "scrape"
    /\ route(current[1]) = "DOCUMENT"
    /\ Met("response")
    /\ \E preview \in DocTexts :
           Return(Success(current[1], "Document",
                          <<"Document URL">> \o preview, <<>>, "DOCUMENT"))
    /\ UNCHANGED extraction
    /\ ScrapeFrame

DocAttemptError ==
    /\ pc = "scrape"
    /\ route(current[1]) = "DOCUMENT"
    /\ Met("HTTPError")
    /\ Return(Failed(current[1], "HTTPError", "DOCUMENT"))
    /\ UNCHANGED extraction
    /\ ScrapeFrame

----------------------------------------------------------------------------
(* Orchestrator: what recursive_extract does with the result of scrape_page *)

\* filepath after the `if has_financial` block: the path written, None when
\* the write failed, unassigned when the page has no financial data
saved_as(url, page, write_ok) ==
    IF ~contains_financial_data(page.content)[1] THEN Unset
    ELSE IF write_ok THEN save_path(url, page.type)
    ELSE None

\* the record appended without a look at the path
after_save_unchecked(pages, url, depth, page, write_ok) ==
    Bind(contains_financial_data(page.content), LAMBDA classify :
         IF classify[1]
         THEN Append(pages, financial_record(url, page, save_path(url, page.type),
                                             classify[2], depth))
         ELSE pages)

\* self.financial_pages after the `if has_financial` block; write_ok tells
\* whether save_financial_content could write the file
after_save(pages, url, depth, page, write_ok) ==
    Bind(contains_financial_data(page.content), LAMBDA classify :
         IF classify[1] /\ write_ok
         THEN Append(pages, financial_record(url, page, save_path(url, page.type),
                                             classify[2], depth))
         ELSE pages)

\* status SUCCESS
ProcessSuccess ==
    /\ pc = "process"
    /\ page_data.status = "SUCCESS"
    /\ classified' = contains_financial_data(page_data.content)
    /\ \E write_ok \in BOOLEAN :
           /\ filepath' = saved_as(current[1], page_data, write_ok)
           /\ files' = IF filepath' \in {Unset, None} THEN files
                       ELSE files \cup {filepath'}
           /\ financial_pages' =
                  after_save(financial_pages, current[1], current[2], page_data, write_ok)
    /\ new_links' =
           IF expands(current[2], max_depth)
           THEN extract_links(page_data, visited_urls, domain)
           ELSE new_links
    /\ urls_to_visit' =
           IF expands(current[2], max_depth)
           THEN add_new_links(urls_to_visit, new_links', Len(new_links'),
                              current[2], visited_urls)
           ELSE urls_to_visit
    /\ pc' = "sleep"
    /\ UNCHANGED <<other, start_url, max_depth, max_pages, domain, visited_urls,
                   failed_pages, skipped_pages, pages_processed, current,
                   attempt, delays, page_data, fetched, dequeued, outcomes,
                   extraction>>

\* the failed list left as it is
record_nothing(failed, url) == failed

\* self.failed_pages.append(current_url)
record_failure(failed, url) == Append(failed, url)

\* status FAILED
ProcessFailed ==
    /\ pc = "process"
    /\ page_data.status # "SUCCESS"
    /\ failed_pages' = record_failure(failed_pages, current[1])
    /\ pc' = "sleep"
    /\ UNCHANGED <<other, start_url, max_depth, max_pages, domain, urls_to_visit,
                   visited_urls, financial_pages, skipped_pages, pages_processed,
                   current, attempt, delays, page_data, new_links, fetched,
                   dequeued, classified, filepath, files, outcomes, extraction>>

\* await asyncio.sleep(3) at the end of the iteration; the locals of the
\* iteration are dead from here on
Sleep ==
    /\ pc = "sleep"
    /\ pc' = "loop"
    /\ current' = <<<<>>, 0>>
    /\ attempt' = 0
    /\ delays' = <<>>
    /\ page_data' = NoPage
    /\ new_links' = <<>>
    /\ classified' = Unclassified
    /\ filepath' = Unset
    /\ outcomes' = <<>>
    /\ extraction' = <<>>
    /\ UNCHANGED <<other, start_url, max_depth, max_pages, domain, urls_to_visit,
                   visited_urls, financial_pages, failed_pages, skipped_pages,
                   pages_processed, fetched, dequeued, files>>

Next ==
    \/ Dequeue
    \/ ExitLoop
    \/ WebAttemptOk
    \/ WebAttemptEmpty
    \/ WebAttemptError
    \/ PdfAttemptOk
    \/ PdfAttemptTransient
    \/ PdfAttemptError
    \/ Backoff
    \/ DocAttemptOk
    \/ DocAttemptError
    \/ ProcessSuccess
    \/ ProcessFailed
    \/ Sleep

Spec == Init /\ [][Next]_vars

\* Every step of the coroutine is eventually taken: the event loop resumes it
\* after each await, and every fetch and every sleep returns
LiveSpec == Spec /\ WF_vars(Next)

----------------------------------------------------------------------------
(* Crawls that share an extractor *)

\* the locals of the running recursive_extract
Locals ==
    [start_url |-> start_url, urls_to_visit |-> urls_to_visit,
     pages_processed |-> pages_processed, pc |-> pc, current |-> current,
     attempt |-> attempt, delays |-> delays, page_data |-> page_data,
     new_links |-> new_links, fetched |-> fetched, dequeued |-> dequeued,
     classified |-> classified, filepath |-> filepath, outcomes |-> outcomes,
     extraction |-> extraction]

\* the locals of recursive_extract(url, ...) when it enters its loop
NewTask(url) ==
    [start_url |-> url, urls_to_visit |-> <<<<url, 0>>>>,
     pages_processed |-> 0, pc |-> "loop", current |-> <<<<>>, 0>>,
     attempt |-> 0, delays |-> <<>>, page_data |-> NoPage,
     new_links |-> <<>>, fetched |-> <<>>, dequeued |-> <<>>,
     classified |-> Unclassified, filepath |-> Unset, outcomes |-> <<>>,
     extraction |-> <<>>]

\* the event loop runs the coroutine whose locals are frame
Resume(frame) ==
    /\ start_url' = frame.start_url
    /\ urls_to_visit' = frame.urls_to_visit
    /\ pages_processed' = frame.pages_processed
    /\ pc' = frame.pc
    /\ current' = frame.current
    /\ attempt' = frame.attempt
    /\ delays' = frame.delays
    /\ page_data' = frame.page_data
    /\ new_links' = frame.new_links
    /\ fetched' = frame.fetched
    /\ dequeued' = frame.dequeued
    /\ classified' = frame.classified
    /\ filepath' = frame.filepath
    /\ outcomes' = frame.outcomes
    /\ extraction' = frame.extraction

\* the attributes of the extractor, the files and the budgets stay
ExtractorFrame ==
    UNCHANGED <<max_depth, max_pages, domain, visited_urls, financial_pages,
                failed_pages, skipped_pages, files>>

\* the awaits that yield to the event loop: entering AsyncWebCrawler,
\* crawler.arun, the asyncio.sleep between two attempts and the
\* asyncio.sleep that ends an iteration; requests.get blocks and never
\* yields
suspension_point ==
    \/ pc = "loop" /\ dequeued = <<>>
    \/ pc = "scrape" /\ route(current[1]) = "WEBPAGE"
    \/ pc = "backoff"
    \/ pc = "sleep"

\* the start URLs of a second task on the extractor
SecondStartUrls ==
    { U(<<"/">>), U(<<"/", "p1">>), U(<<"/", "fee", ".", "pdf">>),
      U(<<"/", "data", ".", "xls">>) }

\* a second recursive_extract is started on the extractor while the first
\* one is suspended
SecondTask ==
    /\ other = NoTask
    /\ suspension_point
    /\ other' = Locals
    /\ \E url \in SecondStartUrls : Resume(NewTask(url))
    /\ ExtractorFrame

\* the running task is suspended or over and the event loop resumes the
\* other one
Switch ==
    /\ other.pc \notin {"none", "done"}
    /\ suspension_point \/ pc = "done"
    /\ other' = Locals
    /\ Resume(other)
    /\ ExtractorFrame

\* Two tasks on one extractor, each with the budget of one page
InitTasks ==
    /\ start_url = U(<<"/">>)
    /\ max_depth = 1
    /\ max_pages = 1
    /\ FreshExtractor
    /\ RunStart

NextTasks ==
    \/ Next
    \/ SecondTask
    \/ Switch

SpecTasks == InitTasks /\ [][NextTasks]_vars

\* crawl_and_extract_financial_data is called again with the URL of the
\* crawl that is over: get_or_create_extractor returns global_extractor as
\* it is, since its base_url is that URL, and recursive_extract starts on it
CrawlAgain ==
    /\ pc = "done"
    /\ other = NoTask
    /\ other' = Locals
    /\ Resume(NewTask(start_url))
    /\ ExtractorFrame

NextRepeat ==
    \/ Next
    \/ CrawlAgain

SpecRepeat == Init /\ [][NextRepeat]_vars

----------------------------------------------------------------------------
(* extract_links as a function of the page: any link list, on an extractor *)
(* that has already visited one page                                       *)

Link(url, text) == [url |-> url, text |-> text]

LinkUniverse ==
    { Href(<<"/", "o1">>),
      Href(<<"/", "o2">>),
      Link(<<"/", "o1">>, <<"Fee", "s">>),
      Href(<<"/", "tax">>),
      Href(<<"/", "fee", ".", "PDF">>),
      Href(<<"/", "About">>),
      Href(<<"https://", "evil", ".", "com", "/", "o1">>),
      Href(<<"https://", "evil", ".", "com", "/", "x", ".", "gov">>),
      Href(<<"https://", "x", ".", "gov", "/", "o2", "?", "q", "#", "f">>),
      Href(<<"#", "top">>),
      Href(<<"/", "v">>),
      Href(<<"o3">>),
      Href(<<>>) }

\* the links of a long menu of pages of no financial interest
MenuLinks ==
    << Href(<<"/", "o1">>), Href(<<"/", "o2">>), Href(<<"/", "o3">>),
       Href(<<"/", "o4">>), Href(<<"/", "o5">>), Href(<<"/", "o6">>) >>

\* s backwards
Reverse(s) == [k \in 1..Len(s) |-> s[Len(s) + 1 - k]]

\* the menu, each link any number of times, top down or bottom up
MenuLinkLists ==
    LET Places == {p \in BoundedSeq(1..Len(MenuLinks), MaxCapLinks) :
                      \A k \in 1..(Len(p) - 1) : p[k] <= p[k + 1]}
        Listed == {[k \in 1..Len(p) |-> MenuLinks[p[k]]] : p \in Places}
    IN  Listed \cup {Reverse(links) : links \in Listed}

PageLinkLists == BoundedSeq(LinkUniverse, MaxMixedLinks) \cup MenuLinkLists

InitLinks ==
    /\ start_url = U(<<"/">>)
    /\ max_depth = MaxDepth
    /\ max_pages = MaxPages
    /\ domain = netloc(start_url)
    /\ visited_urls = {U(<<"/">>), U(<<"/", "v">>)}
    /\ financial_pages = <<>>
    /\ failed_pages = <<>>
    /\ skipped_pages = <<>>
    /\ urls_to_visit = <<>>
    /\ pages_processed = 1
    /\ pc = "call"
    /\ current = <<U(<<"/">>), 0>>
    /\ attempt = 0
    /\ delays = <<>>
    /\ \E links \in PageLinkLists :
           page_data = Success(U(<<"/">>), "Page", TextNone, links, "WEBPAGE")
    /\ new_links = <<>>
    /\ fetched = <<U(<<"/">>)>>
    /\ dequeued = <<<<U(<<"/">>), 0>>>>
    /\ classified = contains_financial_data(TextNone)
    /\ filepath = Unset
    /\ files = {}
    /\ outcomes = <<"result">>
    /\ extraction = <<>>
    /\ other = NoTask

\* new_links = self.extract_links(page_data)
ExtractLinksCall ==
    /\ pc = "call"
    /\ new_links' = extract_links(page_data, visited_urls, domain)
    /\ pc' = "returned"
    /\ UNCHANGED <<other, start_url, max_depth, max_pages, domain, urls_to_visit,
                   visited_urls, financial_pages, failed_pages, skipped_pages,
                   pages_processed, current, attempt, delays, page_data,
                   fetched, dequeued, classified, filepath, files, outcomes,
                   extraction>>

NextLinks == ExtractLinksCall

SpecLinks == InitLinks /\ [][NextLinks]_vars

----------------------------------------------------------------------------
(* scrape_page on its own: one call, on any kind of URL *)

FetchUrls ==
    { U(<<"/", "p1">>),
      U(<<"/", "pdf", "-guide">>),
      U(<<"/", "fee", ".", "pdf">>),
      U(<<"/", "report", ".", "PDF">>),
      U(<<"/", "data", ".", "xls">>),
      U(<<"/", "scan", ".", "pdf", "?", "q">>) }

InitFetch ==
    /\ start_url \in FetchUrls
    /\ max_depth = MaxDepth
    /\ max_pages = MaxPages
    /\ domain = netloc(start_url)
    /\ visited_urls = {start_url}
    /\ financial_pages = <<>>
    /\ failed_pages = <<>>
    /\ skipped_pages = <<>>
    /\ urls_to_visit = <<>>
    /\ pages_processed = 1
    /\ pc = "scrape"
    /\ current = <<start_url, 0>>
    /\ attempt = 0
    /\ delays = <<>>
    /\ page_data = NoPage
    /\ new_links = <<>>
    /\ fetched = <<start_url>>
    /\ dequeued = <<<<start_url, 0>>>>
    /\ classified = Unclassified
    /\ filepath = Unset
    /\ files = {}
    /\ outcomes = <<>>
    /\ extraction = <<>>
    /\ other = NoTask

\* page_data = await self.scrape_page(crawler, current_url)
NextFetch ==
    \/ WebAttemptOk
    \/ WebAttemptEmpty
    \/ WebAttemptError
    \/ PdfAttemptOk
    \/ PdfAttemptTransient
    \/ PdfAttemptError
    \/ Backoff
    \/ DocAttemptOk
    \/ DocAttemptError

SpecFetch == InitFetch /\ [][NextFetch]_vars

----------------------------------------------------------------------------
(* get_safe_filename and contains_financial_data as functions: one call, *)
(* of the one on any URL or of the other on any text                     *)

\* what the paths of the URLs are made of
PathTokens == {"/", "tax", "2024", "_", "%"}

NameUrls ==
    { U(<<>>), U(<<"/", "p1", "?", "q">>),
      U(<<"/", "tax", "/", "rates", "/", "2024">>) }
        \cup { U(<<"/">> \o path) : path \in BoundedSeq(PathTokens, MaxPathLen) }

\* what the texts are made of
TextPhrases == {"rate of 3.5%", "$5 million", "license fee $500", "due annually"}

ClassifiedTexts == BoundedSeq(TextPhrases, MaxTextLen)

InitFunctions ==
    /\ \/ /\ pc = "get_safe_filename"
          /\ start_url \in NameUrls
          /\ page_data = NoPage
       \/ /\ pc = "contains_financial_data"
          /\ start_url = U(<<"/">>)
          /\ \E text \in ClassifiedTexts :
                 page_data = Success(start_url, "Page", text, <<>>, "WEBPAGE")
    /\ max_depth = MaxDepth
    /\ max_pages = MaxPages
    /\ domain = netloc(start_url)
    /\ visited_urls = {start_url}
    /\ financial_pages = <<>>
    /\ failed_pages = <<>>
    /\ skipped_pages = <<>>
    /\ urls_to_visit = <<>>
    /\ pages_processed = 1
    /\ current = <<start_url, 0>>
    /\ attempt = 0
    /\ delays = <<>>
    /\ new_links = <<>>
    /\ fetched = <<start_url>>
    /\ dequeued = <<<<start_url, 0>>>>
    /\ classified = Unclassified
    /\ filepath = Unset
    /\ files = {}
    /\ outcomes = <<>>
    /\ extraction = <<>>
    /\ other = NoTask

\* the variables a call of a function leaves alone
CallFrame ==
    UNCHANGED <<other, start_url, max_depth, max_pages, domain, urls_to_visit,
                visited_urls, financial_pages, failed_pages, skipped_pages,
                pages_processed, current, attempt, delays, page_data,
                new_links, fetched, dequeued, files, outcomes, extraction>>

\* filename = self.get_safe_filename(page_data["url"]), joined to the folder
GetSafeFilenameCall ==
    /\ pc = "get_safe_filename"
    /\ filepath' = save_path(start_url, "WEBPAGE")
    /\ pc' = "returned"
    /\ UNCHANGED classified
    /\ CallFrame

\* has_financial, patterns = self.contains_financial_data(page_data["content"])
ContainsFinancialDataCall ==
    /\ pc = "contains_financial_data"
    /\ classified' = contains_financial_data(page_data.content)
    /\ pc' = "returned"
    /\ UNCHANGED filepath
    /\ CallFrame

NextFunctions ==
    \/ GetSafeFilenameCall
    \/ ContainsFinancialDataCall

SpecFunctions == InitFunctions /\ [][NextFunctions]_vars

----------------------------------------------------------------------------
(* Properties of the crawl *)

Range(s) == {s[i] : i \in 1..Len(s)}

\* the depths of a sequence of frontier entries
Depths(entries) == [i \in 1..Len(entries) |-> entries[i][2]]

NonDecreasing(s) == \A i \in 1..(Len(s) - 1) : s[i] <= s[i + 1]

\* a budget as a count: a negative budget allows nothing
AtLeastZero(n) == IF n < 0 THEN 0 ELSE n

\* C1: in a run on a fresh extractor no URL is passed to scrape_page more
\* than once, whatever the fetches return
NoUrlFetchedTwice ==
    \A i, j \in 1..Len(fetched) : fetched[i] = fetched[j] => i = j

\* a page has been processed, after an earlier fetch, whose links lead back
\* to a page already fetched
NoUrlFetchedTwiceWitness ==
    /\ pc = "sleep"
    /\ Len(fetched) >= 2
    /\ page_data.status = "SUCCESS"
    /\ expands(current[2], max_depth)
    /\ \E k \in 1..Len(page_data.links) :
           clean_url(full_url(page_data.links[k].url, domain)) \in Range(fetched)

\* C2: in every state of a run on a fresh extractor the frontier holds no
\* two entries with the same URL and no entry whose URL is in the visited set
FrontierDistinctAndUnvisited ==
    /\ \A i, j \in 1..Len(urls_to_visit) :
           urls_to_visit[i][1] = urls_to_visit[j][1] => i = j
    /\ \A i \in 1..Len(urls_to_visit) : urls_to_visit[i][1] \notin visited_urls

\* a page has offered a link that an earlier page had already queued, and
\* the frontier still holds it
FrontierDistinctAndUnvisitedWitness ==
    /\ pc = "sleep"
    /\ \E k \in 1..Len(new_links), i \in 1..Len(urls_to_visit) :
           /\ urls_to_visit[i][1] = new_links[k]
           /\ urls_to_visit[i][2] = current[2]

\* C3, as stated: whatever max_depth the caller passes, every entry ever
\* dequeued, the start entry included, has depth <= max_depth, and no entry
\* of the frontier is deeper than max_depth
DepthWithinMaxDepth ==
    /\ \A i \in 1..Len(dequeued) : dequeued[i][2] <= max_depth
    /\ \A i \in 1..Len(urls_to_visit) : urls_to_visit[i][2] <= max_depth

\* C3, amended: no entry queued or dequeued is deeper than max_depth, except
\* the start entry, which is queued and dequeued at depth 0 whatever
\* max_depth is; every entry passed to scrape_page has depth <= max_depth,
\* so with a negative max_depth nothing is fetched
DepthWithinMaxDepthOrStart ==
    /\ \A i \in 1..Len(dequeued) : dequeued[i][2] <= AtLeastZero(max_depth)
    /\ \A i \in 1..Len(urls_to_visit) : urls_to_visit[i][2] <= AtLeastZero(max_depth)
    /\ pc \in {"scrape", "backoff", "process", "sleep"} => current[2] <= max_depth
    /\ max_depth < 0 => fetched = <<>>

\* a page at depth max_depth > 0 was fetched and carries links, none of
\* which is queued
DepthWithinMaxDepthOrStartWitness ==
    /\ pc = "sleep"
    /\ max_depth > 0
    /\ current[2] = max_depth
    /\ page_data.status = "SUCCESS"
    /\ \E k \in 1..Len(page_data.links) :
           link_survives(page_data.links[k], visited_urls, domain)

\* C4, as stated: in every run the number of calls of scrape_page never
\* exceeds max_pages, pages_processed <= max_pages in every state, and with
\* max_pages = 0 no fetch is started
PageBudgetAsStated ==
    /\ Len(fetched) <= max_pages
    /\ pages_processed <= max_pages
    /\ max_pages = 0 => fetched = <<>>

\* C4, amended: the number of calls of scrape_page and pages_processed never
\* exceed max_pages when it is a count, and are 0 when max_pages is 0 or
\* negative
PageBudgetRespected ==
    /\ Len(fetched) <= AtLeastZero(max_pages)
    /\ pages_processed <= AtLeastZero(max_pages)
    /\ max_pages <= 0 => fetched = <<>> /\ pages_processed = 0

\* the run is over because the budget is used up, with entries left
PageBudgetRespectedWitness ==
    /\ pc = "done"
    /\ max_pages > 1
    /\ Len(fetched) = max_pages
    /\ urls_to_visit # <<>>

\* C5: the traversal is breadth-first: the depths of the entries dequeued so
\* far, followed by those of the entries waiting in the frontier in the
\* order they will be dequeued, never decrease
BreadthFirst == NonDecreasing(Depths(dequeued \o urls_to_visit))

\* two levels are in play: entries of depth 1 wait in the frontier ahead of
\* entries of depth 2
BreadthFirstWitness ==
    /\ Len(dequeued) >= 2
    /\ \E i, j \in 1..Len(urls_to_visit) :
           i < j /\ urls_to_visit[i][2] = 1 /\ urls_to_visit[j][2] = 2

\* C6, as stated: for any max_depth and max_pages the main loop eventually
\* exits with the frontier empty or pages_processed = max_pages
Termination ==
    <>(pc = "done" /\ (urls_to_visit = <<>> \/ pages_processed = max_pages))

\* C6, amended: every run terminates; the main loop eventually exits, with
\* the frontier empty or with pages_processed equal to max_pages or, when
\* max_pages is negative, to 0
TerminationWithinBudget ==
    <>(pc = "done" /\ (\/ urls_to_visit = <<>>
                       \/ pages_processed = AtLeastZero(max_pages)))

\* a run is over, after two fetches or more, because the frontier is empty
TerminationWithinBudgetWitness ==
    /\ pc = "done"
    /\ urls_to_visit = <<>>
    /\ pages_processed >= 2
    /\ pages_processed < max_pages

\* C7: every record of financial_pages has between 1 and 10 patterns; it
\* belongs to a page that was fetched with success, and its patterns are the
\* first 10 of the matches the classification of that page found (one at
\* least)
RecordPatternsBounded ==
    \A i \in 1..Len(financial_pages) :
        \E record \in {financial_pages[i]} :
            /\ Len(record.patterns) >= 1
            /\ Len(record.patterns) <= 10
            /\ record.url \in Range(fetched)
            /\ record.url \notin Range(failed_pages)
            /\ (pc = "sleep" /\ record.url = current[1]) =>
                   /\ page_data.status = "SUCCESS"
                   /\ \E classify \in {contains_financial_data(page_data.content)} :
                          /\ classify[1]
                          /\ record.patterns = Take(classify[2], 10)

\* a page with more than 10 matches and a page with fewer are both on record
RecordPatternsBoundedWitness ==
    \E i, j \in 1..Len(financial_pages) :
        /\ Len(financial_pages[i].patterns) = 10
        /\ Len(financial_pages[j].patterns) < 10

\* C10, as stated: a URL that is_generic_page classifies generic is never
\* passed to a fetch: once dequeued it is on the skipped list, it is neither
\* in the visited set nor on the failed list, and it does not increment
\* pages_processed
GenericSkippedAsStated ==
    /\ \A url \in Range(fetched) \cup visited_urls \cup Range(failed_pages) :
           ~is_generic_page(url)
    /\ \A i \in 1..Len(dequeued) :
           is_generic_page(dequeued[i][1]) => dequeued[i][1] \in Range(skipped_pages)
    /\ pages_processed = Len(fetched)

\* is_generic_page, tabulated on the URLs of the site
SiteUrls ==
    StartUrls \cup { clean_url(full_url(SiteLinks[k].url, Dom)) : k \in 1..Len(SiteLinks) }

GenericTable == [url \in SiteUrls |-> is_generic_page(url)]

Generic(url) ==
    IF url \in SiteUrls THEN GenericTable[url] ELSE is_generic_page(url)

\* C10, amended: a generic URL is never passed to a fetch, is neither in the
\* visited set nor on the failed list, and pages_processed counts the
\* fetches alone; once dequeued it is on the skipped list if its depth is
\* within max_depth (the depth test comes first: the generic start URL of a
\* run with a negative max_depth is dropped without a record)
GenericNeverFetched ==
    /\ \A url \in Range(fetched) \cup visited_urls \cup Range(failed_pages) :
           ~Generic(url)
    /\ \A i \in 1..Len(dequeued) :
           Generic(dequeued[i][1]) =>
               (dequeued[i][1] \in Range(skipped_pages) <=> dequeued[i][2] <= max_depth)
    /\ pages_processed = Len(fetched)

\* a run that began at a generic URL is over: the URL is skipped, nothing
\* was fetched
GenericNeverFetchedWitness ==
    /\ pc = "done"
    /\ max_pages > 0
    /\ is_generic_page(start_url)
    /\ skipped_pages = <<start_url>>
    /\ fetched = <<>>

\* C14: a fetch that ends FAILED never aborts the crawl: the step that
\* handles it appends the URL to failed_pages, leaves it in the visited set,
\* writes no file, adds no record and enqueues nothing; the sleep after it
\* leads back to the loop test with the frontier as it was; and the run ends
\* only when the frontier is empty or the budget is used up
FailedFetchGoesOn ==
    /\ [][(pc = "process" /\ page_data.status = "FAILED") =>
              /\ failed_pages' = Append(failed_pages, current[1])
              /\ current[1] \in visited_urls'
              /\ files' = files
              /\ financial_pages' = financial_pages
              /\ urls_to_visit' = urls_to_visit
              /\ pc' = "sleep"]_vars
    /\ [][(pc = "sleep" /\ page_data.status = "FAILED") =>
              /\ pc' = "loop"
              /\ urls_to_visit' = urls_to_visit
              /\ failed_pages' = failed_pages
              /\ visited_urls' = visited_urls
              /\ files' = files]_vars
    /\ [](pc = "done" =>
              (urls_to_visit = <<>> \/ pages_processed >= max_pages))

\* a fetch failed and the crawl went on: the next entry was fetched with
\* success
FailedFetchGoesOnWitness ==
    /\ pc = "process"
    /\ page_data.status = "SUCCESS"
    /\ Len(fetched) >= 2
    /\ fetched[Len(fetched) - 1] \in Range(failed_pages)
    /\ fetched[Len(fetched) - 1] \in visited_urls

\* C17: a write failure while persisting a financial page gives a null path
\* and does not abort the crawl: the step appends no record and leaves the
\* files as they are, the page stays visited and counted, its links are
\* expanded as for any page (each new link is in the frontier afterwards),
\* and the sleep after it leads back to the loop test
WriteFailureGoesOn ==
    /\ [][(pc = "process" /\ filepath' = None) =>
              /\ contains_financial_data(page_data.content)[1]
              /\ financial_pages' = financial_pages
              /\ files' = files
              /\ current[1] \in visited_urls'
              /\ pages_processed' = pages_processed
              /\ failed_pages' = failed_pages
              /\ pc' = "sleep"
              /\ current[2] < max_depth =>
                     /\ new_links' = extract_links(page_data, visited_urls, domain)
                     /\ \A i \in 1..Len(new_links') :
                            \E j \in 1..Len(urls_to_visit') :
                                urls_to_visit'[j][1] = new_links'[i]]_vars
    /\ [][(pc = "sleep" /\ filepath = None) =>
              /\ pc' = "loop"
              /\ urls_to_visit' = urls_to_visit
              /\ financial_pages' = financial_pages]_vars
    /\ [](filepath = None =>
              /\ pages_processed = Len(fetched)
              /\ \A i \in 1..Len(financial_pages) :
                     financial_pages[i].url # current[1])

\* the file of a financial page could not be written: the page is not on
\* record, and its links are in the frontier
WriteFailureGoesOnWitness ==
    /\ pc = "sleep"
    /\ filepath = None
    /\ classified[1]
    /\ new_links # <<>>
    /\ \E j \in 1..Len(urls_to_visit) : urls_to_visit[j] = <<new_links[1], current[2] + 1>>
    /\ \A i \in 1..Len(financial_pages) : financial_pages[i].url # current[1]

\* C18: every member of the visited set is a normalized URL with no
\* fragment and no query string, the start URL included, so a link that
\* differs from a visited URL only by its query string or fragment is never
\* fetched: no two fetches are of URLs that are equal once cleaned
VisitedNormalized ==
    /\ \A url \in visited_urls : clean_url(url) = url
    /\ \A i, j \in 1..Len(fetched) :
           clean_url(fetched[i]) = clean_url(fetched[j]) => i = j

----------------------------------------------------------------------------
(* Properties of extract_links *)

\* The tier of a link, 1 Document, 2 Financial, 3 Other: Document if
\* is_document_url, else Financial if the URL or the anchor text contains a
\* financial keyword, else Other
TierOf(url, text) ==
    IF is_document_url(url) THEN 1
    ELSE IF \E low_url \in {lower(url)}, low_text \in {lower(text)} :
                \E keyword \in FINANCIAL_LINK_KEYWORDS :
                    In(keyword, low_url) \/ In(keyword, low_text)
         THEN 2
         ELSE 3

\* the surviving links of a page in page order, each with its URL and tier
Survivors(page, visited, dom) ==
    Bind(SelectSeq(page.links, LAMBDA l : link_survives(l, visited, dom)), LAMBDA kept :
         [k \in 1..Len(kept) |->
             \* the URL as the extractor cleans it
             Bind(clean_url(full_url(kept[k].url, dom)), LAMBDA url :
                  [url |-> url, tier |-> TierOf(url, kept[k].text)])])

\* the URLs of the surviving links of one tier, in page order
TierUrls(S, tier) ==
    Bind(SelectSeq(S, LAMBDA l : l.tier = tier), LAMBDA links :
         [k \in 1..Len(links) |-> links[k].url])

\* the tier of a URL is the first tier one of its surviving links is in
UrlTier(S, url) == Min({S[k].tier : k \in {n \in 1..Len(S) : S[n].url = url}})

\* the place in the page of the first link that puts the URL in its tier
FirstAt(S, url) ==
    Min({k \in 1..Len(S) : S[k].url = url /\ S[k].tier = UrlTier(S, url)})

\* the URLs of a list that are in the Other tier
OtherTierUrls(S, urls) == {url \in Range(urls) : UrlTier(S, url) = 3}

TieredOrder(out, S, lists) ==
    /\ \A i, j \in 1..Len(out) : out[i] = out[j] => i = j
    /\ \A i \in 1..Len(out) : \E k \in 1..Len(S) : S[k].url = out[i]
    /\ \A k \in 1..Len(S) : S[k].tier < 3 => S[k].url \in Range(out)
    /\ \A i, j \in 1..Len(out) :
           i < j => \/ UrlTier(S, out[i]) < UrlTier(S, out[j])
                    \/ /\ UrlTier(S, out[i]) = UrlTier(S, out[j])
                       /\ FirstAt(S, out[i]) < FirstAt(S, out[j])
    /\ lists.document_links = TierUrls(S, 1)
    /\ lists.financial_links = TierUrls(S, 2)
    /\ lists.other_links = TierUrls(S, 3)

\* C8: for any link list of a page extract_links returns a list without
\* duplicates, of URLs of surviving links, with every Document and every
\* Financial URL of the page in it; Document URLs come before Financial
\* URLs, these before Other URLs, and the URLs of a tier are in page order;
\* each surviving link is put in one list, that of its tier
LinksTieredInPageOrder ==
    pc = "returned" =>
        \E S \in {Survivors(page_data, visited_urls, domain)},
           lists \in {categorize(page_data.links, Len(page_data.links),
                                 visited_urls, domain)} :
            TieredOrder(new_links, S, lists)

\* the page lists an Other link, then a Financial link, then a Document
\* link: the three URLs are returned, in the opposite order
LinksTieredInPageOrderWitness ==
    /\ pc = "returned"
    /\ Len(new_links) = 3
    /\ \E S \in {Survivors(page_data, visited_urls, domain)} :
           /\ Len(S) = 3
           /\ S[1].tier = 3 /\ S[2].tier = 2 /\ S[3].tier = 1
           /\ new_links = <<S[3].url, S[2].url, S[1].url>>

\* C9, as stated: the output holds exactly min(5, n) Other-tier URLs, n the
\* number of distinct surviving Other-tier URLs of the page, whatever the
\* order and the repetitions of the page's links
ExactlyMinFiveOthers ==
    pc = "returned" =>
        \E S \in {Survivors(page_data, visited_urls, domain)} :
            Cardinality(OtherTierUrls(S, new_links)) =
                Min({5, Cardinality(OtherTierUrls(S, [k \in 1..Len(S) |-> S[k].url]))})

\* C9, amended: the Other-tier URLs of the output are the distinct Other-tier
\* URLs among the first 5 surviving Other-tier links of the page: 5 at most,
\* and fewer than min(5, n) when one of these 5 links repeats another while
\* a further Other-tier URL follows them
OthersOfFirstFiveLinks ==
    pc = "returned" =>
        \E S \in {Survivors(page_data, visited_urls, domain)} :
            /\ OtherTierUrls(S, new_links) = OtherTierUrls(S, Take(TierUrls(S, 3), 5))
            /\ Cardinality(OtherTierUrls(S, new_links)) <= 5

\* the page has 5 distinct surviving Other-tier URLs, the first of them
\* twice among its first 5 such links: 4 are returned
OthersOfFirstFiveLinksWitness ==
    /\ pc = "returned"
    /\ \E S \in {Survivors(page_data, visited_urls, domain)} :
           /\ Cardinality(OtherTierUrls(S, TierUrls(S, 3))) = 5
           /\ Cardinality(OtherTierUrls(S, new_links)) = 4

\* an absolute link to another host
OffDomain(link, dom) ==
    link # <<>> /\ link[1] \in HttpSchemes /\ netloc(link) # dom

\* C15: every URL returned by extract_links has a host equal to the crawl's
\* target domain, and an absolute link whose host is another domain is
\* dropped, even when the target domain occurs elsewhere in the link
LinksStayOnDomain ==
    pc = "returned" =>
        /\ \A i \in 1..Len(new_links) : netloc(new_links[i]) = domain
        /\ \A k \in 1..Len(page_data.links) :
               OffDomain(page_data.links[k].url, domain) =>
                   clean_url(page_data.links[k].url) \notin Range(new_links)

----------------------------------------------------------------------------
(* Properties of scrape_page *)

\* every attempt of the fetch in progress, one at least, timed out
TimeoutsOnly ==
    /\ route(current[1]) = "PDF"
    /\ outcomes # <<>>
    /\ \A i \in 1..Len(outcomes) : outcomes[i] = "Timeout"

\* scrape_page has returned
FetchOver == pc \notin {"scrape", "backoff"}

\* C11, as stated: three consecutive timeouts on a PDF fetch produce exactly
\* 3 attempts with inter-attempt delays of 1, 2, 4 time units, followed by a
\* terminal Failed result whose error mentions Timeout
PdfTimeoutDelaysAsStated ==
    (TimeoutsOnly /\ Len(outcomes) = 3) =>
        /\ FetchOver
        /\ delays = <<1, 2, 4>>
        /\ page_data = Failed(current[1], "Timeout after multiple attempts", "PDF")

\* C11, amended: three consecutive timeouts on a PDF fetch produce exactly 3
\* attempts, with a delay of 1 time unit after the first and of 2 after the
\* second and none after the third, which ends the fetch with a Failed
\* result whose error mentions Timeout
PdfTimeoutDelays ==
    TimeoutsOnly =>
        /\ Len(outcomes) <= 3
        /\ Len(outcomes) = 1 => ~FetchOver /\ delays = <<1>>
        /\ Len(outcomes) = 2 => ~FetchOver /\ delays = <<1, 2>>
        /\ Len(outcomes) = 3 =>
               /\ FetchOver
               /\ delays = <<1, 2>>
               /\ page_data = Failed(current[1], "Timeout after multiple attempts", "PDF")

\* a PDF fetch is over after three timeouts
PdfTimeoutDelaysWitness ==
    /\ pc = "process"
    /\ outcomes = <<"Timeout", "Timeout", "Timeout">>
    /\ page_data.status = "FAILED"

\* C12: whenever a PDF download succeeds, download_and_process_pdf returns
\* status SUCCESS with type PDF whatever the text extractor does: with text
\* extracted the content is that text, with no text at all (every page
\* empty or raising) it is the note about the file, and when PyPDF2 raises
\* as a whole it is the error note; the result is never FAILED
PdfExtractionNeverFails ==
    (route(current[1]) = "PDF" /\ extraction # <<>>) =>
        /\ FetchOver
        /\ page_data.status = "SUCCESS"
        /\ page_data.type = "PDF"
        /\ page_data.url = current[1]
        /\ page_data.links = <<>>
        /\ page_data.title =
               IF extraction[1] = "PdfReader raises"
               THEN "PDF Document (Processing Error)"
               ELSE IF \E k \in 2..Len(extraction) : extraction[k] = "text"
               THEN "PDF Document"
               ELSE "PDF Document (No Text)"

\* extract_text raised on the first page of a downloaded PDF and gave text
\* on the second: the fetch is a success
PdfExtractionNeverFailsWitness ==
    /\ FetchOver
    /\ extraction = <<"PdfReader", "raises", "text">>
    /\ page_data.status = "SUCCESS"
    /\ page_data.content = <<"--- PAGE 2 ---">> \o PdfPageText

\* what an attempt of crawler.arun meets
WebOutcomes == {"result", "empty", "RenderError"}

\* C13: a URL for which is_document_url is true is never passed to
\* crawler.arun: no attempt of its fetch is an attempt of the renderer, and
\* its result comes from the PDF or the generic-document download and never
\* has type WEBPAGE
DocumentsNeverRendered ==
    is_document_url(current[1]) =>
        /\ \A i \in 1..Len(outcomes) : outcomes[i] \notin WebOutcomes
        /\ page_data.type # "WEBPAGE"
        /\ FetchOver =>
               page_data.type =
                   IF endswith(lower(current[1]), <<".", "pdf">>) THEN "PDF" ELSE "DOCUMENT"

\* a URL with .pdf ahead of its query string went through the
\* generic-document download
DocumentsNeverRenderedWitness ==
    /\ FetchOver
    /\ current[1] = U(<<"/", "scan", ".", "pdf", "?", "q">>)
    /\ outcomes = <<"response">>
    /\ page_data.type = "DOCUMENT"

\* C16: a PDF download whose response content-type is not a PDF type always
\* ends as a terminal FAILED result with reason 'Not a valid PDF document',
\* for every URL that reaches the PDF download path
NonPdfContentTypeFails ==
    (/\ route(current[1]) = "PDF"
     /\ outcomes # <<>>
     /\ outcomes[Len(outcomes)] = "text/html") =>
        /\ FetchOver
        /\ page_data = Failed(current[1], "Not a valid PDF document", "PDF")

----------------------------------------------------------------------------
(* Properties of get_safe_filename and contains_financial_data *)

\* the characters that part the words of a path
Separators == UnsafeChars \cup {"_"}

RECURSIVE JoinedWords(_, _)
\* the words of the first k tokens of s (the runs of tokens that are not
\* separators), joined by '_'
JoinedWords(s, k) ==
    IF k = 0 THEN <<>>
    ELSE IF s[k] \in Separators THEN JoinedWords(s, k - 1)
    ELSE IF \E i \in 1..(k - 1) : s[i] \notin Separators
         THEN IF s[k - 1] \in Separators
              THEN JoinedWords(s, k - 1) \o <<"_", s[k]>>
              ELSE Append(JoinedWords(s, k - 1), s[k])
         ELSE <<s[k]>>

\* the name returned for the URL of the call
ReturnedName == filepath[2]

\* C19, as stated: get_safe_filename maps a URL to its path with leading and
\* trailing slashes removed, every '/' and unsafe character replaced by '_',
\* runs of '_' collapsed and trimmed, plus '.txt'; a URL with an empty path
\* maps to the domain with dots replaced by '_'
SafeFilenameAsStated ==
    (pc = "returned" /\ filepath # Unset) =>
        \E path \in {urlpath(start_url)} :
            ReturnedName =
                (IF \A i \in 1..Len(path) : path[i] = "/"
                 THEN <<"x", "_", "gov">>
                 ELSE JoinedWords(path, Len(path))) \o <<".", "txt">>

\* C19, amended: as stated for a path with a word in it; a path that is
\* empty, or only slashes, or '_' between slashes maps to the domain with
\* dots replaced by '_'; any other path without a word (only unsafe
\* characters, '/' and '_') maps to 'page_' and a number
SafeFilename ==
    (pc = "returned" /\ filepath # Unset) =>
        \E path \in {urlpath(start_url)} :
            ReturnedName =
                (IF (\A i \in 1..Len(path) : path[i] = "/")
                       \/ \E i \in 1..Len(path) :
                              /\ path[i] = "_"
                              /\ \A j \in 1..Len(path) : j # i => path[j] = "/"
                 THEN <<"x", "_", "gov">>
                 ELSE IF \A i \in 1..Len(path) : path[i] \in Separators
                 THEN <<"page_", "hash">>
                 ELSE JoinedWords(path, Len(path))) \o <<".", "txt">>

\* the name of https://x.gov/tax/rates/2024
SafeFilenameWitness ==
    /\ pc = "returned"
    /\ start_url = U(<<"/", "tax", "/", "rates", "/", "2024">>)
    /\ ReturnedName = <<"tax", "_", "rates", "_", "2024", ".", "txt">>

\* the number of matches each expression of the registry may contribute
Quota(text) ==
    [k \in 1..31 |-> Min({3, Len(findall(k, text))})]

RECURSIVE SumTo(_, _)
\* f[1] + ... + f[k]
SumTo(f, k) == IF k = 0 THEN 0 ELSE SumTo(f, k - 1) + f[k]

\* C20: contains_financial_data returns relevance true exactly when the
\* returned match list is non-empty; the list is made of one block per
\* expression, in registry order, the block of an expression being its
\* first 3 matches at most; empty text yields (false, empty list)
ClassificationByPattern ==
    (pc = "returned" /\ page_data.status = "SUCCESS") =>
        \E text \in {page_data.content}, quota \in {Quota(page_data.content)} :
            /\ classified[1] <=> classified[2] # <<>>
            /\ text = <<>> => classified = <<FALSE, <<>>>>
            /\ Len(classified[2]) = SumTo(quota, 31)
            /\ \A k \in 1..31 :
                   SubSeq(classified[2], SumTo(quota, k - 1) + 1, SumTo(quota, k))
                       = SubSeq(findall(k, text), 1, quota[k])

\* a text with four matches of the first and of the third expression: three
\* of each are returned, those of the first ahead
ClassificationByPatternWitness ==
    /\ pc = "returned"
    /\ page_data.content =
           <<"rate of 3.5%", "rate of 3.5%", "rate of 3.5%", "rate of 3.5%">>
    /\ classified =
           <<TRUE, <<"3.5%", "3.5%", "3.5%", "rate of 3", "rate of 3", "rate of 3">>>>

\* the attempts the dispatcher may make on a URL
AttemptCap(url) ==
    CASE route(url) = "WEBPAGE" -> 2
      [] route(url) = "PDF" -> 3
      [] OTHER -> 1

\* C21: for one URL the dispatcher makes at most 2 attempts on the web-page
\* path, at most 3 on the PDF path and exactly 1 on the other-document
\* path, and produces exactly one result, SUCCESS or FAILED: there is no
\* result while attempts go on, and once there is one it stays as it is and
\* no attempt is added until the iteration is over
AttemptsBounded ==
    /\ [](pc \in {"scrape", "backoff", "process", "sleep"} =>
              /\ Len(outcomes) <= AttemptCap(current[1])
              /\ Len(outcomes) = attempt + (IF pc = "scrape" THEN 0 ELSE 1)
              /\ pc \in {"scrape", "backoff"} => page_data = NoPage
              /\ pc \in {"process", "sleep"} =>
                     /\ page_data.status \in {"SUCCESS", "FAILED"}
                     /\ page_data.url = current[1]
                     /\ Len(outcomes) >= 1
                     /\ route(current[1]) = "DOCUMENT" => Len(outcomes) = 1)
    /\ [][pc = "process" => outcomes' = outcomes /\ page_data' = page_data]_vars
    /\ [][pc = "sleep" => outcomes' = <<>> /\ current[1] \in visited_urls']_vars

\* a PDF fetch came to its result on the third attempt, a success
AttemptsBoundedWitness ==
    /\ pc = "process"
    /\ route(current[1]) = "PDF"
    /\ Len(outcomes) = 3
    /\ page_data.status = "SUCCESS"

\* what a retried attempt of a download meets
Transient == {"Timeout", "ConnectionError"}

\* C22: on the PDF path a further attempt, preceded by a backoff delay, is
\* made exactly when the previous attempt ended in a timeout or a connection
\* failure and fewer than 3 attempts have been made: every attempt but the
\* last one made met one of the two and was followed by its delay, and after
\* the last one made the fetch goes on exactly in that case; any other
\* download error ends the fetch as FAILED on that attempt
PdfRetriesOnTransientOnly ==
    (route(current[1]) = "PDF" /\ outcomes # <<>>) =>
        \E n \in {Len(outcomes)} :
            /\ \A i \in 1..(n - 1) : outcomes[i] \in Transient
            /\ ~FetchOver <=> (outcomes[n] \in Transient /\ n < 3)
            /\ Len(delays) = IF FetchOver THEN n - 1 ELSE n
            /\ \A i \in 1..Len(delays) : delays[i] = 2 ^ (i - 1)
            /\ (outcomes[n] \notin Transient /\ page_data.status = "FAILED") =>
                   /\ outcomes[n] = "HTTPError"
                   /\ page_data = Failed(current[1], "HTTPError", "PDF")
            /\ outcomes[n] = "HTTPError" => FetchOver /\ page_data.status = "FAILED"

\* a connection failure, a backoff, then an HTTP error: the fetch is over
\* after two attempts
PdfRetriesOnTransientOnlyWitness ==
    /\ pc = "process"
    /\ outcomes = <<"ConnectionError", "HTTPError">>
    /\ delays = <<1>>
    /\ page_data.status = "FAILED"

\* C23 as stated: failures on the web-page path are retried with exponential
\* backoff, the delay before retry attempt k+1 being 2^k time units as on the
\* PDF path (k counted from 0 as the code counts attempts, or from 1)
WebBackoffExponential ==
    route(current[1]) = "WEBPAGE" =>
        \A i \in 1..Len(delays) : delays[i] \in {2 ^ (i - 1), 2 ^ i}

\* C23: a failed attempt on the web-page path is retried once, after a
\* constant delay of 3 time units; the delay of a retry does not depend on
\* the attempt it follows
WebRetryDelayConstant ==
    route(current[1]) = "WEBPAGE" =>
        /\ \A i \in 1..Len(delays) : delays[i] = 3
        /\ Len(delays) = IF FetchOver THEN Len(outcomes) - 1 ELSE Len(outcomes)
        /\ Len(delays) <= 1
        /\ \A i \in 1..Len(delays) : outcomes[i] = "RenderError"

\* the renderer failed once and the second attempt follows a delay of 3
WebRetryDelayConstantWitness ==
    /\ route(current[1]) = "WEBPAGE"
    /\ outcomes = <<"RenderError", "result">>
    /\ delays = <<3>>
    /\ page_data.status = "SUCCESS"

\* the entries a step appends to the frontier
Enqueued == SubSeq(urls_to_visit', Len(urls_to_visit) + 1, Len(urls_to_visit'))

\* the URLs waiting in a frontier
QueuedUrls(queue) == { queue[i][1] : i \in 1..Len(queue) }

\* C24: links of a page dequeued at depth d are enqueued only when its fetch
\* succeeded and d < max_depth, always at depth d+1, and only if the link is
\* neither visited nor already queued; the links enqueued are all such links
\* of the page whether or not it was classified financial, and a page at
\* depth max_depth (or a failed one) enqueues nothing
LinksEnqueuedAtNextDepth ==
    [][IF pc = "loop"
       THEN Len(urls_to_visit') <= Len(urls_to_visit)
       ELSE /\ Len(urls_to_visit') >= Len(urls_to_visit)
            /\ SubSeq(urls_to_visit', 1, Len(urls_to_visit)) = urls_to_visit
            /\ Enqueued # <<>> =>
                   /\ pc = "process"
                   /\ page_data.status = "SUCCESS"
                   /\ current[2] < max_depth
            /\ \A i \in 1..Len(Enqueued) :
                   /\ Enqueued[i][2] = current[2] + 1
                   /\ Enqueued[i][1] \notin visited_urls
                   /\ Enqueued[i][1] \notin QueuedUrls(urls_to_visit)
                   /\ \A j \in 1..Len(Enqueued) :
                          Enqueued[j][1] = Enqueued[i][1] => j = i
            /\ (pc = "process" /\ page_data.status = "SUCCESS"
                               /\ current[2] < max_depth) =>
                   QueuedUrls(Enqueued) =
                       { l \in Range(new_links') :
                             l \notin visited_urls \cup QueuedUrls(urls_to_visit) }
            /\ (pc = "process" /\ (page_data.status # "SUCCESS"
                                    \/ current[2] >= max_depth)) =>
                   Enqueued = <<>>]_vars

\* the start page was fetched and found not financial, and its links wait
\* in the frontier at depth 1
LinksEnqueuedAtNextDepthWitness ==
    /\ pc = "sleep"
    /\ Len(dequeued) = 1
    /\ page_data.status = "SUCCESS"
    /\ classified[1] = FALSE
    /\ urls_to_visit # <<>>
    /\ \A i \in 1..Len(urls_to_visit) :
           urls_to_visit[i] = <<urls_to_visit[i][1], 1>>
                /\ urls_to_visit[i][1] \in Range(new_links)

\* C25: every URL for which is_pdf_url is true is fetched through the PDF
\* download path: no attempt of its fetch is an attempt of the renderer or
\* the single request of the generic-document path, and its result has type
\* PDF
PdfUrlsTakePdfPath ==
    is_pdf_url(current[1]) =>
        /\ \A i \in 1..Len(outcomes) : outcomes[i] \notin WebOutcomes \cup {"response"}
        /\ FetchOver => page_data.type = "PDF"

------------------------------------------------------------\* the URLs of the records of a list of financial pages
RecordUrls(records) == { records[i].url : i \in 1..Len(records) }

\* C28: in every reachable state of a run on a fresh extractor
\* pages_processed equals the size of the visited set, every URL in
\* failed_pages and every URL of a financial_pages record is in the visited
\* set, no URL is in both failed_pages and financial_pages, and no URL in
\* skipped_pages is in the visited set
CountersAndListsAgree ==
    /\ pages_processed = Cardinality(visited_urls)
    /\ Range(failed_pages) \subseteq visited_urls
    /\ RecordUrls(financial_pages) \subseteq visited_urls
    /\ Range(failed_pages) \cap RecordUrls(financial_pages) = {}
    /\ Range(skipped_pages) \cap visited_urls = {}

\* a run that has fetched three pages, one of them failed and one financial
CountersAndListsAgreeWitness ==
    /\ failed_pages # <<>>
    /\ financial_pages # <<>>
    /\ pages_processed = 3

\* C29: two distinct URLs persisted in the same run are never written to the
\* same file path: the filepath values of the financial_pages records are
\* pairwise distinct
FilePathsDistinct ==
    \A i, j \in 1..Len(financial_pages) :
        financial_pages[i].filepath = financial_pages[j].filepath => i = j

\* C30: no generic URL is ever enqueued by link expansion, because
\* extract_links drops generic links before they reach the frontier: the
\* only generic entry the frontier can hold is the start URL, and the
\* skipped list contains at most one URL, the start URL
NoGenericUrlEnqueued ==
    /\ \A l \in Range(new_links) : ~Generic(l)
    /\ \A i \in 1..Len(urls_to_visit) :
           Generic(urls_to_visit[i][1]) =>
               urls_to_visit[i] = <<start_url, 0>>
    /\ Len(skipped_pages) <= 1
    /\ Range(skipped_pages) \subseteq {start_url}

\* a page that links to the generic /About has been expanded: its other
\* links wait in the frontier, /About does not
NoGenericUrlEnqueuedWitness ==
    /\ pc = "sleep"
    /\ \E k \in 1..Len(page_data.links) :
           page_data.links[k] = Href(<<"/", "About">>)
    /\ new_links # <<>>
    /\ Range(new_links) \subseteq QueuedUrls(urls_to_visit)
    /\ U(<<"/", "About">>) \notin QueuedUrls(urls_to_visit)

----------------
(* Properties of crawls that share an extractor *)

\* C26: when two crawl tasks run interleaved on one extractor and share its
\* visited set, no URL is fetched by both (nor twice by one), and a URL is
\* in the visited set whenever its fetch is awaited or has been awaited
NoUrlFetchedByBothTasks ==
    other.pc # "none" =>
        /\ Range(fetched) \cap Range(other.fetched) = {}
        /\ \A i, j \in 1..Len(fetched) : fetched[i] = fetched[j] => i = j
        /\ \A i, j \in 1..Len(other.fetched) :
               other.fetched[i] = other.fetched[j] => i = j
        /\ Range(fetched) \cup Range(other.fetched) \subseteq visited_urls
        /\ pc \in {"scrape", "backoff", "process", "sleep"} =>
               current[1] \in visited_urls
        /\ other.pc \in {"scrape", "backoff", "process", "sleep"} =>
               other.current[1] \in visited_urls

\* two tasks were started on the same URL: one fetched it while the other
\* was suspended, and the other one, resumed, discarded it and is over
NoUrlFetchedByBothTasksWitness ==
    /\ other.pc # "none"
    /\ other.start_url = start_url
    /\ other.fetched = <<start_url>>
    /\ pc = "done"
    /\ dequeued = <<<<start_url, 0>>>>
    /\ fetched = <<>>

\* C27: each crawl started through crawl_and_extract_financial_data begins
\* with an empty visited set and empty result lists; a second crawl of the
\* same start URL fetches that URL first if the first crawl fetched it, and
\* the financial pages its summary reports are pages it fetched itself
CrawlsStartFresh ==
    other.pc = "done" =>
        /\ (pc = "loop" /\ dequeued = <<>>) =>
               /\ visited_urls = {}
               /\ financial_pages = <<>>
               /\ failed_pages = <<>>
               /\ skipped_pages = <<>>
        /\ (pc = "done" /\ other.fetched # <<>>) =>
               /\ fetched # <<>>
               /\ fetched[1] = other.fetched[1]
        /\ pc = "done" =>
               \A i \in 1..Len(financial_pages) :
                   financial_pages[i].url \in Range(fetched)

====
